---- MODULE Spec2Model ----
(***************************************************************************)
(* Sliding-window rate limiter of ant_projects/rate_limiter.ipynb:         *)
(* class RateLimiter (__init__, is_allowed) driven by threads that run     *)
(* handle_request(user_id).  Every line of is_allowed is one step of the   *)
(* calling thread, so that the effect of self.lock is something the model  *)
(* checks rather than assumes.  Instants are integers: one unit is the     *)
(* resolution of time.time().                                              *)
(***************************************************************************)
EXTENDS Integers, Sequences, FiniteSets

\* ---------------------------------------------------------------- bounds
\* Largest instant the wall clock reaches.
MaxTime == 2
\* Number of is_allowed calls issued in one run, a setting back of the clock
\* counting as one.
MaxCalls == 4
\* Largest max_requests passed to the constructor.
MaxLimit == 2
\* Largest period passed to the constructor.
MaxPeriod == 2

Threads == {"t1", "t2"}
Users == {"user1", "user2"}
NoThread == "none"
NoUser == "nobody"
NoTime == -1

\* Arguments RateLimiter(max_requests, period) may be constructed with:
\* __init__ stores whatever it is given.
LimitValues == 0..MaxLimit
PeriodValues == 0..MaxPeriod

VARIABLES
    constructed,    \* rate_limiter exists
    max_requests,   \* self.max_requests
    period,         \* self.period
    lock,           \* self.lock: the thread holding it, or NoThread
    requests,       \* self.requests: defaultdict(deque), key -> sequence of instants
    clock,          \* the instant time.time() returned last
    pc,             \* each thread's position in handle_request and is_allowed
    user_id,        \* each thread's argument user_id, NoUser outside a call
    current_time,   \* each thread's local current_time
    result,         \* each thread's value of is_allowed(user_id) in handle_request
    calls,          \* number of calls issued so far
    setbacks,       \* number of readings that found the clock set back
    log,            \* per identity, the calls that returned: [time, ok], in return order
    before,         \* per thread, self.requests as it was when the call took the lock
    popped,         \* per thread, popleft steps of the call in progress
    lin,            \* the store of the sequential limiter, updated once per call
    expected,       \* per thread, what the sequential limiter returned for its call
    recorded        \* per thread, the instant its call appended, NoTime if none

vars == <<constructed, max_requests, period, lock, requests, clock, pc, user_id,
          current_time, result, calls, setbacks, log, before, popped, lin, expected,
          recorded>>

config == <<constructed, max_requests, period>>
ghost == <<setbacks, log, before, popped, lin, expected, recorded>>

EmptyStore == [u \in {} |-> <<>>]

\* ------------------------------------------------------- pure helpers
\* defaultdict(deque).__getitem__: a missing key is inserted with an empty deque.
GetItem(store, u) == IF u \in DOMAIN store THEN store[u] ELSE <<>>

WithKey(store, u) == [v \in DOMAIN store \cup {u} |-> GetItem(store, v)]

\* Faulty variants of line 48: < for <=, and the period forgotten.
ExpiredStrict(t, now) == t < now - period
ExpiredNoPeriod(t, now) == t <= now
\* Line 48: requests[user_id][0] <= current_time - self.period
Expired(t, now) == t <= now - period

\* Faulty variant of line 52: <= for <.
HasCapacityOffByOne(n) == n <= max_requests
\* Line 52: len(self.requests[user_id]) < self.max_requests
HasCapacity(n) == n < max_requests

\* Faulty variant of line 52: one count for all identities.
CountAll(store, u) == IF DOMAIN store = {} THEN 0
                      ELSE LET RECURSIVE Sum(_)
                               Sum(S) == IF S = {} THEN 0
                                         ELSE LET v == CHOOSE x \in S : TRUE
                                              IN Len(store[v]) + Sum(S \ {v})
                           IN Sum(DOMAIN store)
\* Line 52: the length compared is that of the caller's own deque.
Count(store, u) == Len(GetItem(store, u))

\* Faulty variant of line 54: appendleft for append.
PushLeft(q, e) == <<e>> \o q
\* Line 54: deque.append puts the instant at the back.
Push(q, e) == Append(q, e)

\* Lines 47-50 as one function: pop the head while it is expired.
RECURSIVE PruneHead(_, _)
PruneHead(q, now) ==
    IF q # <<>> /\ Expired(Head(q), now) THEN PruneHead(Tail(q), now) ELSE q

\* Lines 45-57 as one function of the store, the identity and the instant read:
\* what a call does when nothing interleaves with it.
IsAllowedSeq(store, u, now) ==
    LET pruned == IF u \in DOMAIN store
                  THEN [store EXCEPT ![u] = PruneHead(store[u], now)]
                  ELSE store
        keyed == WithKey(pruned, u)
    IN IF HasCapacity(Count(keyed, u))
       THEN [store |-> [keyed EXCEPT ![u] = Push(keyed[u], now)], ok |-> TRUE]
       ELSE [store |-> keyed, ok |-> FALSE]

\* ---------------------------------------------------------------- Init
\* Before line 60 runs.
Init ==
    /\ constructed = FALSE
    /\ max_requests = 0
    /\ period = 0
    /\ lock = NoThread
    /\ requests = EmptyStore
    /\ clock = 0
    /\ pc = [t \in Threads |-> "idle"]
    /\ user_id = [t \in Threads |-> NoUser]
    /\ current_time = [t \in Threads |-> NoTime]
    /\ result = [t \in Threads |-> FALSE]
    /\ calls = 0
    /\ setbacks = 0
    /\ log = [u \in Users |-> <<>>]
    /\ before = [t \in Threads |-> EmptyStore]
    /\ popped = [t \in Threads |-> 0]
    /\ lin = EmptyStore
    /\ expected = [t \in Threads |-> FALSE]
    /\ recorded = [t \in Threads |-> NoTime]

\* ------------------------------------------------------------- actions
\* Lines 29-39: __init__ stores its arguments, creates the lock and the store.
New(m, p) ==
    /\ ~constructed
    /\ constructed' = TRUE
    /\ max_requests' = m
    /\ period' = p
    /\ lock' = NoThread
    /\ requests' = EmptyStore
    /\ UNCHANGED <<clock, pc, user_id, current_time, result, calls, ghost>>

\* Lines 63-64 and 43: a thread runs handle_request(u), which calls is_allowed(u).
Call(t, u) ==
    /\ constructed
    /\ pc[t] = "idle"
    /\ calls + setbacks < MaxCalls
    /\ calls' = calls + 1
    /\ user_id' = [user_id EXCEPT ![t] = u]
    /\ pc' = [pc EXCEPT ![t] = "lock"]
    /\ UNCHANGED <<config, lock, requests, clock, current_time, result, ghost>>

\* Faulty variant of line 44: the body is entered without waiting for the lock.
LockTaken == TRUE
\* Line 44: with self.lock blocks until the lock is free.
LockFree == lock = NoThread

Acquire(t) ==
    /\ pc[t] = "lock"
    /\ LockFree
    /\ lock' = t
    /\ pc' = [pc EXCEPT ![t] = "time"]
    /\ before' = [before EXCEPT ![t] = requests]
    /\ popped' = [popped EXCEPT ![t] = 0]
    /\ UNCHANGED <<config, requests, clock, user_id, current_time, result, calls,
                   setbacks, log, lin, expected, recorded>>

\* Line 45: current_time = time.time(), reading the instant now.
Read(t, now) ==
    /\ pc[t] = "time"
    /\ clock' = now
    /\ current_time' = [current_time EXCEPT ![t] = now]
    /\ pc' = [pc EXCEPT ![t] = "member"]
    /\ LET seq == IsAllowedSeq(lin, user_id[t], now)
       IN /\ lin' = seq.store
          /\ expected' = [expected EXCEPT ![t] = seq.ok]
    /\ UNCHANGED <<config, lock, requests, user_id, result, calls,
                   log, before, popped, recorded>>

\* time.time() has not gone back since the last reading: any instant from it on.
ReadClock(t) ==
    /\ \E now \in clock..MaxTime : Read(t, now)
    /\ UNCHANGED setbacks

\* The system clock was set back since the last reading: time.time() is the wall
\* clock, not a monotonic one, and returns an earlier instant.
ReadClockSetBack(t) ==
    /\ calls + setbacks < MaxCalls
    /\ setbacks' = setbacks + 1
    /\ \E now \in 0..(clock - 1) : Read(t, now)

\* Line 46: if user_id in self.requests
CheckMember(t) ==
    /\ pc[t] = "member"
    /\ pc' = [pc EXCEPT ![t] = IF user_id[t] \in DOMAIN requests THEN "prune" ELSE "compare"]
    /\ UNCHANGED <<config, lock, requests, clock, user_id, current_time, result, calls, ghost>>

\* Faulty variant of line 50: the key goes with its last timestamp.
PopAndDrop(store, u) ==
    IF Len(store[u]) = 1
    THEN [v \in DOMAIN store \ {u} |-> store[v]]
    ELSE [store EXCEPT ![u] = Tail(@)]
\* Line 50: self.requests[user_id].popleft(); the key stays, even with an empty deque.
PopLeft(store, u) == [store EXCEPT ![u] = Tail(@)]

\* Lines 47-50: one evaluation of the while condition, and the popleft if it holds.
PruneStep(t) ==
    /\ pc[t] = "prune"
    /\ LET u == user_id[t]
           q == requests[u]
       IN IF q # <<>> /\ Expired(Head(q), current_time[t])
          THEN /\ requests' = PopLeft(requests, u)
               /\ popped' = [popped EXCEPT ![t] = @ + 1]
               /\ pc' = pc
          ELSE /\ pc' = [pc EXCEPT ![t] = "compare"]
               /\ UNCHANGED <<requests, popped>>
    /\ UNCHANGED <<config, lock, clock, user_id, current_time, result, calls,
                   setbacks, log, before, lin, expected, recorded>>

\* Lines 51-53: len(self.requests[user_id]) inserts the key if it is missing.
Compare(t) ==
    /\ pc[t] = "compare"
    /\ LET u == user_id[t]
           keyed == WithKey(requests, u)
       IN /\ requests' = keyed
          /\ pc' = [pc EXCEPT ![t] = IF HasCapacity(Count(keyed, u)) THEN "append" ELSE "deny"]
    /\ UNCHANGED <<config, lock, clock, user_id, current_time, result, calls, ghost>>

\* Line 54: self.requests[user_id].append(current_time)
AppendTime(t) ==
    /\ pc[t] = "append"
    /\ LET u == user_id[t]
           keyed == WithKey(requests, u)
       IN requests' = [keyed EXCEPT ![u] = Push(@, current_time[t])]
    /\ pc' = [pc EXCEPT ![t] = "allow"]
    /\ UNCHANGED <<config, lock, clock, user_id, current_time, result, calls, ghost>>

\* Faulty variant of line 44: a return leaves the lock with the caller.
LockKept(t) == t
\* Line 44: leaving the with block releases self.lock, on either return path.
LockOnExit(t) == NoThread

\* Leaving the with block releases the lock; the call's locals go out of scope and
\* handle_request holds the value returned.
Return(t, ok) ==
    /\ lock' = LockOnExit(t)
    /\ result' = [result EXCEPT ![t] = ok]
    /\ log' = [log EXCEPT ![user_id[t]] = Append(@, [time |-> current_time[t], ok |-> ok])]
    /\ pc' = [pc EXCEPT ![t] = "print"]
    /\ current_time' = [current_time EXCEPT ![t] = NoTime]
    /\ before' = [before EXCEPT ![t] = EmptyStore]
    /\ popped' = [popped EXCEPT ![t] = 0]
    /\ expected' = [expected EXCEPT ![t] = FALSE]
    /\ recorded' = [recorded EXCEPT ![t] = IF ok THEN current_time[t] ELSE NoTime]
    /\ UNCHANGED <<config, requests, clock, user_id, calls, setbacks, lin>>

\* Line 55: return True
ReturnTrue(t) ==
    /\ pc[t] = "allow"
    /\ Return(t, TRUE)

\* Line 57: return False
ReturnFalse(t) ==
    /\ pc[t] = "deny"
    /\ Return(t, FALSE)

\* Faulty variant of lines 65-70: the request's slot is given back when it is done.
ReleaseOnPrint(store, u) ==
    IF u \in DOMAIN store /\ store[u] # <<>> THEN [store EXCEPT ![u] = Tail(@)] ELSE store
\* Lines 65-70: what the print leaves of the store. It evaluates
\* rate_limiter.requests[user_id] and its len(), lookups of the defaultdict.
AfterPrint(store, u) == WithKey(store, u)

\* Lines 65-71: handle_request prints the outcome with the deque it reads now,
\* without the lock, any time after is_allowed has returned; the request is done.
PrintReport(t) ==
    /\ pc[t] = "print"
    /\ requests' = AfterPrint(requests, user_id[t])
    /\ pc' = [pc EXCEPT ![t] = "idle"]
    /\ user_id' = [user_id EXCEPT ![t] = NoUser]
    /\ result' = [result EXCEPT ![t] = FALSE]
    /\ recorded' = [recorded EXCEPT ![t] = NoTime]
    /\ UNCHANGED <<config, lock, clock, current_time, calls, setbacks, log, before,
                   popped, lin, expected>>

Construct == \E m \in LimitValues, p \in PeriodValues : New(m, p)
DoCall == \E t \in Threads, u \in Users : Call(t, u)
DoAcquire == \E t \in Threads : Acquire(t)
DoReadClock == \E t \in Threads : ReadClock(t)
DoReadClockSetBack == \E t \in Threads : ReadClockSetBack(t)
DoCheckMember == \E t \in Threads : CheckMember(t)
DoPruneStep == \E t \in Threads : PruneStep(t)
DoCompare == \E t \in Threads : Compare(t)
DoAppendTime == \E t \in Threads : AppendTime(t)
DoReturnTrue == \E t \in Threads : ReturnTrue(t)
DoReturnFalse == \E t \in Threads : ReturnFalse(t)
DoPrint == \E t \in Threads : PrintReport(t)

IsAllowedStep ==
    \/ DoCall
    \/ DoAcquire
    \/ DoReadClock
    \/ DoCheckMember
    \/ DoPruneStep
    \/ DoCompare
    \/ DoAppendTime
    \/ DoReturnTrue
    \/ DoReturnFalse

\* The readings of time.time() are non-decreasing.
Next == Construct \/ IsAllowedStep \/ DoPrint
Spec == Init /\ [][Next]_vars

\* The clock may also be set back between two readings.
NextSkew == Construct \/ IsAllowedStep \/ DoPrint \/ DoReadClockSetBack
SpecSkew == Init /\ [][NextSkew]_vars

\* The steps of a call inside the with block of line 44.
CriticalStep(t) ==
    \/ ReadClock(t)
    \/ CheckMember(t)
    \/ PruneStep(t)
    \/ Compare(t)
    \/ AppendTime(t)
    \/ ReturnTrue(t)
    \/ ReturnFalse(t)

\* A step of a call in progress.
CallStep(t) == Acquire(t) \/ CriticalStep(t)

\* Fair lock acquisition: a thread that keeps finding its way to a free lock
\* takes it, and the thread that holds the lock keeps running.
Fairness ==
    \A t \in Threads : SF_vars(Acquire(t)) /\ WF_vars(CriticalStep(t))
SpecFair == Spec /\ Fairness

\* ------------------------------------------------- history and positions
\* The positions of is_allowed at which the lock is held.
InCritical(t) == pc[t] \in {"time", "member", "prune", "compare", "append", "allow", "deny"}

\* The call has compared the length with max_requests: its outcome is decided.
Decided(t) == pc[t] \in {"append", "allow", "deny"}
Admitting(t) == pc[t] \in {"append", "allow"}

\* Calls for u that returned True, recorded at an instant in the window (lo, hi].
AdmittedIn(u, lo, hi) ==
    Cardinality({i \in DOMAIN log[u] : log[u][i].ok /\ lo < log[u][i].time /\ log[u][i].time <= hi})

\* Calls for u that returned True and are not expired at instant now: t > now - period.
NonExpired(u, now) ==
    Cardinality({i \in DOMAIN log[u] : log[u][i].ok /\ log[u][i].time > now - period})

Rejected(u) == {i \in DOMAIN log[u] : ~log[u][i].ok}

NonDecreasing(q) == \A i \in 1..(Len(q) - 1) : q[i] <= q[i + 1]

\* ---------------------------------------------------------------- C1
\* C1: with max_requests >= 1, no identity ever has more than max_requests
\* timestamps in requests, in particular right after a call has returned.
QuotaInvariant ==
    max_requests >= 1 => \A u \in DOMAIN requests : Len(requests[u]) <= max_requests

\* A full deque, and a call that was turned away because of it.
QuotaWitness ==
    \E u \in DOMAIN requests :
        /\ max_requests >= 1
        /\ Len(requests[u]) = max_requests
        /\ Rejected(u) # {}
        /\ lock = NoThread

Linearizable ==
    /\ \A t \in Threads : InCritical(t) => lock = t
    /\ \A t \in Threads : (pc[t] = "allow" => expected[t]) /\ (pc[t] = "deny" => ~expected[t])
    /\ lock = NoThread => requests = lin
    /\ \A u \in DOMAIN lin : Len(lin[u]) <= max_requests

\* A call that pruned and appended while the other thread waits for the lock
\* with a call for the same identity.
LinearizableWitness ==
    /\ pc["t2"] = "allow" /\ popped["t2"] >= 1
    /\ pc["t1"] = "lock" /\ user_id["t1"] = user_id["t2"]

NoFalseRejection ==
    \A t \in Threads :
        (Decided(t) /\ NonExpired(user_id[t], current_time[t]) < max_requests)
            => Admitting(t)

\* The instants of the calls for u that returned, followed by that of the call in progress.
InstantsOf(u, now) == [i \in 1..(Len(log[u]) + 1) |->
                          IF i <= Len(log[u]) THEN log[u][i].time ELSE now]

\* C5 amended: when the instants of the identity's calls are non-decreasing, a call
\* with strictly fewer than max_requests non-expired admitted calls returns True.
NoFalseRejectionMonotonic ==
    \A t \in Threads :
        (/\ Decided(t)
         /\ NonDecreasing(InstantsOf(user_id[t], current_time[t]))
         /\ NonExpired(user_id[t], current_time[t]) < max_requests)
            => Admitting(t)

\* A call admitted under capacity after it pruned an expired entry, one admitted
\* call still counting.
NoFalseRejectionWitness ==
    \E t \in Threads :
        /\ pc[t] = "allow"
        /\ popped[t] >= 1
        /\ NonDecreasing(InstantsOf(user_id[t], current_time[t]))
        /\ NonExpired(user_id[t], current_time[t]) = 1

\* ---------------------------------------------------------------- C6
\* C6 as claimed, for a limiter constructed with max_requests >= 1 and period >= 1:
\* once a call for u was rejected at instant now, every later call for u at an
\* instant >= now + period is admitted, whatever calls for u came in between.
ExpiryRecovery ==
    (max_requests >= 1 /\ period >= 1) =>
        \A u \in Users : \A i \in Rejected(u) : \A j \in DOMAIN log[u] :
            (i < j /\ log[u][j].time >= log[u][i].time + period) => log[u][j].ok

\* Calls for u admitted after the i-th and before the j-th that the j-th still counts.
AdmittedBetween(u, i, j) ==
    Cardinality({k \in DOMAIN log[u] :
                    i < k /\ k < j /\ log[u][k].ok /\ log[u][k].time > log[u][j].time - period})

\* C6 amended: with non-decreasing clock readings, once a call for u was rejected
\* at instant now, a later call for u at an instant >= now + period is admitted
\* when fewer than max_requests calls admitted since the rejection are still
\* inside its window.
ExpiryRecoveryUnlessRefilled ==
    \A u \in Users : \A i \in Rejected(u) : \A j \in DOMAIN log[u] :
        (/\ i < j
         /\ log[u][j].time >= log[u][i].time + period
         /\ AdmittedBetween(u, i, j) < max_requests) => log[u][j].ok

\* A rejection, and a call a full period later that was admitted again.
ExpiryRecoveryWitness ==
    \E u \in Users : \E i \in Rejected(u) : \E j \in DOMAIN log[u] :
        /\ i < j
        /\ period >= 1
        /\ log[u][j].time >= log[u][i].time + period
        /\ log[u][j].ok

\* ---------------------------------------------------------------- C7
InWindow(q, now) == SelectSeq(q, LAMBDA e : now - period < e /\ e <= now)

ConstructionValidated ==
    constructed => (max_requests > 0 /\ period > 0)

\* ---------------------------------------------------------------- C9
\* C9: a call that is about to return False has left requests, keys included, as
\* it found it, and has pruned nothing.
RejectionSideEffectFree ==
    \A t \in Threads :
        pc[t] = "deny" => (requests = before[t] /\ popped[t] = 0)

\* ---------------------------------------------------------------- C10
\* The outcomes of the limiter when it serves one identity alone, at the instants
\* of the calls h[k], h[k+1], ..., starting from store.
RECURSIVE SoloOutcomes(_, _, _)
SoloOutcomes(h, k, store) ==
    IF k > Len(h) THEN <<>>
    ELSE LET r == IsAllowedSeq(store, "solo", h[k].time)
         IN <<r.ok>> \o SoloOutcomes(h, k + 1, r.store)

OutcomesOf(h) == [k \in 1..Len(h) |-> h[k].ok]

\* The thread whose step this is.
Stepping(t) == pc'[t] # pc[t] \/ popped'[t] # popped[t]

\* C10: a step of a call for u leaves the entry of every other identity as it is,
\* and the outcomes of the calls for u are those of a limiter that serves u alone
\* at the same instants.
IdentityIndependence ==
    /\ [](\A u \in Users : OutcomesOf(log[u]) = SoloOutcomes(log[u], 1, EmptyStore))
    /\ [][\A t \in Threads : Stepping(t) =>
             \A v \in Users \ {user_id[t]} :
                 /\ (v \in DOMAIN requests') = (v \in DOMAIN requests)
                 /\ GetItem(requests', v) = GetItem(requests, v)]_vars

\* One identity is turned away while the other, at the same instant, is admitted.
IndependenceWitness ==
    /\ max_requests >= 1
    /\ \E i \in Rejected("user1") : \E j \in DOMAIN log["user2"] :
           /\ log["user2"][j].ok
           /\ log["user2"][j].time = log["user1"][i].time
    /\ Len(GetItem(requests, "user1")) = max_requests

\* ---------------------------------------------------------------- C11
\* C11: no thread with a call for identity u waits for the lock while the lock is
\* held by a thread whose call is for another identity.
NoCrossIdentityBlocking ==
    \A t \in Threads :
        (pc[t] = "lock" /\ lock # NoThread) => user_id[lock] = user_id[t]

\* ---------------------------------------------------------------- C12
\* The j - i + 1 calls for u logged at places i..j read the same instant.
SameInstant(u, i, j) == \A k \in i..j : log[u][k].time = log[u][i].time

\* Free slots of u at the instant of its i-th call, before that call: max_requests
\* less the admitted calls before it that are not expired at that instant.
FreeSlots(u, i) ==
    LET used == Cardinality({k \in 1..(i - 1) :
                    log[u][k].ok /\ log[u][k].time > log[u][i].time - period})
    IN IF used >= max_requests THEN 0 ELSE max_requests - used

AdmittedAmong(u, i, j) == Cardinality({k \in i..j : log[u][k].ok})

Min(a, b) == IF a <= b THEN a ELSE b

\* C12: of n calls for u that follow one another with the same instant, u having k
\* free slots at that instant, exactly min(n, k) return True.
SameInstantConsumption ==
    \A u \in Users : \A i \in DOMAIN log[u] : \A j \in i..Len(log[u]) :
        SameInstant(u, i, j) =>
            AdmittedAmong(u, i, j) = Min(j - i + 1, FreeSlots(u, i))

\* ---------------------------------------------------------------- C13
\* The call of t is for an identity that had no entry in the store when it began.
FirstCall(t) == InCritical(t) /\ user_id[t] \notin DOMAIN before[t]

\* C13: with max_requests >= 1, the first call for an identity with no entry in the
\* store is admitted, and creates the entry with the current instant as its one
\* timestamp.
FirstCallAdmitted ==
    \A t \in Threads :
        (max_requests >= 1 /\ FirstCall(t) /\ Decided(t)) =>
            /\ Admitting(t)
            /\ user_id[t] \in DOMAIN requests
            /\ requests[user_id[t]] = IF pc[t] = "allow" THEN <<current_time[t]>> ELSE <<>>

\* A first call admitted while the other identity's deque is full.
FirstCallWitness ==
    \E t \in Threads : \E v \in DOMAIN requests :
        /\ max_requests >= 1
        /\ FirstCall(t)
        /\ pc[t] = "allow"
        /\ v # user_id[t]
        /\ Len(requests[v]) = max_requests
        /\ Rejected(v) # {}

\* ---------------------------------------------------------------- C14
\* The deque of the limiter when it serves one identity alone, after the calls
\* h[k], h[k+1], ... at their instants, starting from store.
RECURSIVE SoloStore(_, _, _)
SoloStore(h, k, store) ==
    IF k > Len(h) THEN GetItem(store, "solo")
    ELSE SoloStore(h, k + 1, IsAllowedSeq(store, "solo", h[k].time).store)

\* No call for u is between taking and releasing the lock.
Quiet(u) == \A t \in Threads : InCritical(t) => user_id[t] # u

\* The step is the end of handle_request in thread t: its request is done.
Completes(t) == pc[t] = "print" /\ pc'[t] = "idle"

\* The step takes nothing from the deque of u, or it is the popleft of a call for
\* u whose instant has the head expired.
OnlyAgesOut(u) ==
    \/ u \notin DOMAIN requests
    \/ /\ u \in DOMAIN requests'
       /\ Len(requests'[u]) >= Len(requests[u])
       /\ SubSeq(requests'[u], 1, Len(requests[u])) = requests[u]
    \/ \E t \in Threads :
           /\ pc[t] = "prune" /\ user_id[t] = u
           /\ requests[u] # <<>>
           /\ Head(requests[u]) <= current_time[t] - period
           /\ requests'[u] = Tail(requests[u])

\* C14: the deque of every identity is a function of the instants of its calls
\* alone, in whatever order and after whatever delay the requests admitted are
\* done; the end of a request changes nothing of the limiter, and an entry
\* leaves a deque only by a popleft that finds it expired.
DurationIndependence ==
    /\ [](\A u \in Users : Quiet(u) => GetItem(requests, u) = SoloStore(log[u], 1, EmptyStore))
    /\ [][\A t \in Threads : Completes(t) =>
             UNCHANGED <<requests, lock, max_requests, period>>]_vars
    /\ [][\A u \in Users : OnlyAgesOut(u)]_vars

\* The request admitted first is still being handled when a later call for the
\* same identity has been turned away and its handler is done.
DurationWitness ==
    \E u \in Users :
        /\ max_requests >= 1
        /\ Len(log[u]) = 2 /\ log[u][1].ok /\ ~log[u][2].ok
        /\ pc["t1"] = "print" /\ result["t1"] /\ user_id["t1"] = u
        /\ pc["t2"] = "idle"

\* ---------------------------------------------------------------- C15
\* The call of t has done all it does to the store and is about to return.
Completed(t) == pc[t] \in {"allow", "deny"}

\* C15 as claimed, for a limiter constructed with max_requests >= 1 and
\* period >= 1: for every sequence of instants, when a call for u at instant now
\* is complete every element t of requests[u] has t > now - period.
NoStaleEntries ==
    (max_requests >= 1 /\ period >= 1) =>
        \A t \in Threads :
            Completed(t) =>
                \A i \in 1..Len(requests[user_id[t]]) :
                    requests[user_id[t]][i] > current_time[t] - period

\* C15 amended: when the instants of the calls for u are non-decreasing, after a
\* complete call at instant now every element of requests[u], the timestamp the
\* call has just appended apart, has t > now - period.
NoStaleEntriesMonotonic ==
    \A t \in Threads :
        (Completed(t) /\ NonDecreasing(InstantsOf(user_id[t], current_time[t]))) =>
            \A i \in 1..Len(requests[user_id[t]]) :
                \/ requests[user_id[t]][i] > current_time[t] - period
                \/ pc[t] = "allow" /\ i = Len(requests[user_id[t]])

\* A complete call that pruned an entry, kept a younger one and appended its own.
NoStaleWitness ==
    \E t \in Threads :
        /\ pc[t] = "allow"
        /\ period >= 1
        /\ popped[t] >= 1
        /\ Len(requests[user_id[t]]) = 2
        /\ NonDecreasing(InstantsOf(user_id[t], current_time[t]))

\* ---------------------------------------------------------------- C16
\* C16 as claimed, for a limiter constructed with max_requests >= 1 and
\* period >= 1: whatever the clock readings and the interleaving, every deque is
\* in non-decreasing order in every state.
SortedInvariant ==
    (max_requests >= 1 /\ period >= 1) =>
        \A u \in DOMAIN requests : NonDecreasing(requests[u])

\* The instants read so far by the calls for u, the one in progress included.
InstantsSoFar(u) ==
    IF \E t \in Threads : InCritical(t) /\ user_id[t] = u /\ current_time[t] # NoTime
    THEN LET t == CHOOSE x \in Threads :
                      InCritical(x) /\ user_id[x] = u /\ current_time[x] # NoTime
         IN InstantsOf(u, current_time[t])
    ELSE [i \in 1..Len(log[u]) |-> log[u][i].time]

\* C16 amended: in every state and interleaving, the deque of an identity is in
\* non-decreasing order as long as the clock readings of the calls for that
\* identity have been non-decreasing.
SortedWhenMonotonic ==
    \A u \in DOMAIN requests :
        NonDecreasing(InstantsSoFar(u)) => NonDecreasing(requests[u])

\* A call has just appended a later instant behind an earlier one, the readings
\* of its identity non-decreasing.
SortedWitness ==
    \E t \in Threads :
        /\ pc[t] = "allow"
        /\ Len(requests[user_id[t]]) = 2
        /\ requests[user_id[t]][1] < requests[user_id[t]][2]
        /\ NonDecreasing(InstantsSoFar(user_id[t]))

\* ---------------------------------------------------------------- C17
\* A call in progress: issued and not yet returned.
InProgress(t) == pc[t] = "lock" \/ InCritical(t)

\* The call of t has returned its decision.
Returned(t) == pc[t] = "print"

\* C17: a call pops at most max_requests entries; the lock is held exactly by the
\* call inside the with block, so either return has released it; while a call
\* is in progress some call can take a step (no deadlock); and, the lock being
\* acquired fairly, every call issued returns True or False, whatever the
\* capacity left.
TerminatesAndFrees ==
    /\ [](\A t \in Threads : popped[t] <= max_requests)
    /\ [](\A t \in Threads : lock = t <=> InCritical(t))
    /\ []((\E t \in Threads : InProgress(t)) => \E t \in Threads : ENABLED CallStep(t))
    /\ \A t \in Threads : (pc[t] = "lock") ~> Returned(t)

\* Both threads have called and have their decisions, one of them False under a
\* positive limit, and the lock is free again.
TerminatesWitness ==
    \E t \in Threads :
        /\ Returned(t)
        /\ ~result[t]
        /\ lock = NoThread
        /\ max_requests >= 1
        /\ \E o \in Threads \ {t} : Returned(o)

\* ---------------------------------------------------------------- C18
\* The identities presented so far: those of the calls that have reached the
\* length test of line 51, where the defaultdict stores a missing key.
Presented ==
    {u \in Users : log[u] # <<>> \/ \E t \in Threads : user_id[t] = u /\ Decided(t)}

\* C18: no step removes a key from requests, and the keys stored are exactly
\* the identities presented.
StoreNeverShrinks ==
    /\ [][DOMAIN requests \subseteq DOMAIN requests']_vars
    /\ [](DOMAIN requests = Presented)

\* Both identities are stored, one of them with a deque that a call has just
\* pruned to empty.
StoreWitness ==
    /\ DOMAIN requests = Users
    /\ \E t \in Threads :
           /\ pc[t] = "compare"
           /\ popped[t] >= 1
           /\ requests[user_id[t]] = <<>>

\* ---------------------------------------------------------------- C19
\* handle_request of t prints its report in this step.
Reports(t) == pc[t] = "print" /\ pc'[t] = "idle"

\* The instants in the deque that the report of t reads, lines 66 and 70.
ReadForReport(t) ==
    LET q == GetItem(requests, user_id[t]) IN {q[i] : i \in 1..Len(q)}

\* C19 as claimed, for a limiter constructed with max_requests >= 1 and
\* period >= 1: the deque a report reads, after is_allowed has returned and
\* without the lock, has at least max_requests entries when the report says
\* denied and holds the timestamp just recorded when it says allowed.
ReportConsistent ==
    [][\A t \in Threads :
          (Reports(t) /\ max_requests >= 1 /\ period >= 1) =>
              IF result[t]
              THEN recorded[t] \in ReadForReport(t)
              ELSE Len(GetItem(requests, user_id[t])) >= max_requests]_vars

====
